---- MODULE Spec2Model ----
(***************************************************************************)
(* Profit & Loss calculator (src/index.tsx): the App component's state,    *)
(* its two effects (load from and save to localStorage), the memoized      *)
(* calculations, the input handlers and handleSaveTransaction.             *)
(*                                                                         *)
(* Strings are sequences of one-character strings.  A JavaScript number    *)
(* is a record [k, v]: k = "fin" with v the value in thousandths, k =      *)
(* "inf" with v = 1 or -1, k = "nan", or k = "null" for the JSON null a    *)
(* reloaded field can hold.  The finite range of a double (1.8e308) does   *)
(* not fit TLC's integers; it is scaled down to MaxFinite thousandths, so  *)
(* that arithmetic overflows to Infinity as IEEE 754 arithmetic does       *)
(* (two tyres at 60 here, two tyres at 1e308 in a browser).  Values are    *)
(* compared as Object.is compares them (NaN equals NaN); -0 is not         *)
(* modelled, x || 0 turns it into 0.                                       *)
(*                                                                         *)
(* The handlers take any string of their input sets: the required and      *)
(* type="number" attributes constrain what a browser form submits, not     *)
(* what the handlers do with the state they find.                          *)
(***************************************************************************)
EXTENDS Integers, Sequences, FiniteSets, TLC

VARIABLES numTyres, purchasePrice, salePrice, kmRun, generatorCost,
          transactions, store, queued, pc, saveFailed, alerted

vars == <<numTyres, purchasePrice, salePrice, kmRun, generatorCost,
          transactions, store, queued, pc, saveFailed, alerted>>

inputs == <<numTyres, purchasePrice, salePrice, kmRun, generatorCost>>

(***************************************************************************)
(* Bounds of the model.                                                    *)
(***************************************************************************)
\* longest history the model lets the save action build
MaxHistory == 2
\* largest finite number, in thousandths (stands for Number.MAX_VALUE)
MaxFinite == 100000

(***************************************************************************)
(* JavaScript numbers.                                                     *)
(***************************************************************************)
NaN == [k |-> "nan", v |-> 0]
PosInf == [k |-> "inf", v |-> 1]
NegInf == [k |-> "inf", v |-> -1]
Null == [k |-> "null", v |-> 0]
Zero == [k |-> "fin", v |-> 0]

\* a computed value in thousandths, overflowing to +-Infinity
Fin(v) ==
    IF v > MaxFinite THEN PosInf
    ELSE IF v < -MaxFinite THEN NegInf
    ELSE [k |-> "fin", v |-> v]

Sign(x) == IF x.v > 0 THEN 1 ELSE IF x.v < 0 THEN -1 ELSE 0

Inf(s) == IF s > 0 THEN PosInf ELSE NegInf

\* ToNumber: null coerces to 0 in arithmetic
ToNumber(x) == IF x.k = "null" THEN Zero ELSE x

\* division of thousandths rounding toward zero
DivTrunc(a, b) == IF a >= 0 THEN a \div b ELSE -((-a) \div b)

Mul(x0, y0) ==
    LET x == ToNumber(x0)
        y == ToNumber(y0)
    IN  IF x.k = "nan" \/ y.k = "nan" THEN NaN
        ELSE IF x.k = "inf" \/ y.k = "inf"
             THEN IF Sign(x) * Sign(y) = 0 THEN NaN ELSE Inf(Sign(x) * Sign(y))
        ELSE Fin(DivTrunc(x.v * y.v, 1000))

Add(x0, y0) ==
    LET x == ToNumber(x0)
        y == ToNumber(y0)
    IN  IF x.k = "nan" \/ y.k = "nan" THEN NaN
        ELSE IF x.k = "inf" /\ y.k = "inf"
             THEN IF x.v = y.v THEN x ELSE NaN
        ELSE IF x.k = "inf" THEN x
        ELSE IF y.k = "inf" THEN y
        ELSE Fin(x.v + y.v)

Neg(x0) ==
    LET x == ToNumber(x0)
    IN  IF x.k = "nan" THEN NaN ELSE [k |-> x.k, v |-> -x.v]

Sub(x, y) == Add(x, Neg(y))

\* x > 0 as JavaScript compares (NaN compares false)
GreaterThanZero(x0) ==
    LET x == ToNumber(x0)
    IN  x.k \in {"fin", "inf"} /\ x.v > 0

\* x || 0 : NaN and 0 are falsy
OrZero(x) == IF x.k = "nan" \/ (x.k = "fin" /\ x.v = 0) THEN Zero ELSE x

(***************************************************************************)
(* parseInt(s, 10) and parseFloat(s).                                      *)
(***************************************************************************)
Digits == <<"0", "1", "2", "3", "4", "5", "6", "7", "8", "9">>

IsDigit(c) == \E i \in 1..10 : Digits[i] = c

DigitVal(c) == (CHOOSE i \in 1..10 : Digits[i] = c) - 1

WhiteSpace == {" ", "\t", "\n"}

RECURSIVE SkipWhite(_, _)
\* index of the first character of s at or after i that is no white space
SkipWhite(s, i) ==
    IF i <= Len(s) /\ s[i] \in WhiteSpace THEN SkipWhite(s, i + 1) ELSE i

RECURSIVE DigitRun(_, _)
\* number of consecutive digits of s starting at i
DigitRun(s, i) ==
    IF i <= Len(s) /\ IsDigit(s[i]) THEN 1 + DigitRun(s, i + 1) ELSE 0

RECURSIVE DigitsValue(_, _, _)
\* the decimal value of the n digits of s starting at i
DigitsValue(s, i, n) ==
    IF n = 0 THEN 0
    ELSE 10 * DigitsValue(s, i, n - 1) + DigitVal(s[i + n - 1])

RECURSIVE Pow10(_)
Pow10(n) == IF n = 0 THEN 1 ELSE 10 * Pow10(n - 1)

HasSign(s, i) == i <= Len(s) /\ s[i] \in {"+", "-"}

SignAt(s, i) == IF i <= Len(s) /\ s[i] = "-" THEN -1 ELSE 1

\* m * 10^e as a number in thousandths; 10^7 thousandths and more are beyond
\* the finite range, less than 10^-9 thousandths rounds to 0
Decimal(m, e) ==
    IF m = 0 THEN Zero
    ELSE IF e + 3 > 6 THEN PosInf
    ELSE IF e + 3 >= 0 THEN Fin(m * Pow10(e + 3))
    ELSE IF e + 3 < -9 THEN Zero
    ELSE Fin(m \div Pow10(-(e + 3)))

\* the digits of s from j on, with the sign read before them
IntegerOf(s, sign, j, n) ==
    IF n = 0 THEN NaN
    ELSE IF sign < 0 THEN Neg(Decimal(DigitsValue(s, j, n), 0))
    ELSE Decimal(DigitsValue(s, j, n), 0)

IntegerAt(s, sign, j) == IntegerOf(s, sign, j, DigitRun(s, j))

IntegerSigned(s, i) == IntegerAt(s, SignAt(s, i), IF HasSign(s, i) THEN i + 1 ELSE i)

\* parseInt(s, 10): white space, a sign, then digits up to the first other
\* character; NaN without a digit
ParseInt(s) == IntegerSigned(s, SkipWhite(s, 1))

InfinityWord == <<"I", "n", "f", "i", "n", "i", "t", "y">>

StartsWith(s, i, w) ==
    /\ i + Len(w) - 1 <= Len(s)
    /\ \A n \in 1..Len(w) : s[i + n - 1] = w[n]

HasDot(s, i) == i <= Len(s) /\ s[i] = "."

\* value of the digits of an exponent part starting at x, 0 without a digit
ExponentDigits(s, sign, x) == sign * DigitsValue(s, x, DigitRun(s, x))

\* the exponent part at m, if there is one
ExponentAt(s, m) ==
    IF m <= Len(s) /\ s[m] \in {"e", "E"}
    THEN ExponentDigits(s, SignAt(s, m + 1), IF HasSign(s, m + 1) THEN m + 2 ELSE m + 1)
    ELSE 0

FloatValue(sign, mant, e) ==
    IF sign < 0 THEN Neg(Decimal(mant, e)) ELSE Decimal(mant, e)

\* ni integer digits from j, nf fraction digits after the dot, m the index
\* after the mantissa
FloatOf(s, sign, j, ni, nf, m) ==
    IF ni + nf = 0 THEN NaN
    ELSE FloatValue(sign,
                    DigitsValue(s, j, ni) * Pow10(nf) + DigitsValue(s, j + ni + 1, nf),
                    ExponentAt(s, m) - nf)

FloatFraction(s, sign, j, ni, nf) ==
    FloatOf(s, sign, j, ni, nf, IF HasDot(s, j + ni) THEN j + ni + 1 + nf ELSE j + ni)

FloatMantissa(s, sign, j, ni) ==
    FloatFraction(s, sign, j, ni,
                  IF HasDot(s, j + ni) THEN DigitRun(s, j + ni + 1) ELSE 0)

FloatAt(s, sign, j) ==
    IF StartsWith(s, j, InfinityWord) THEN Inf(sign)
    ELSE FloatMantissa(s, sign, j, DigitRun(s, j))

FloatSigned(s, i) == FloatAt(s, SignAt(s, i), IF HasSign(s, i) THEN i + 1 ELSE i)

\* parseFloat(s): white space, a sign, then Infinity or the longest decimal
\* literal (digits, a dot and digits, an exponent part); NaN without a digit
ParseFloat(s) == FloatSigned(s, SkipWhite(s, 1))

(***************************************************************************)
(* Raw strings the input handlers receive (e.target.value).               *)
(***************************************************************************)
EmptyString == <<>>

\* tyre count: empty, zero, not a number, a count
TyreInputs == {EmptyString, <<"0">>, <<"a", "b", "c">>, <<"2">>}
\* -10, a negative price
PurchaseInputs == {EmptyString, <<"-", "1", "0">>}
\* 60, whose total for two tyres is beyond the finite range
SaleInputs == {EmptyString, <<"6", "e", "1">>}
\* 1.5
KmInputs == {EmptyString, <<"1", ".", "5">>}
\* not a number
GeneratorInputs == {EmptyString, <<"x">>}

FloatInputs == PurchaseInputs \cup SaleInputs \cup KmInputs \cup GeneratorInputs

\* parseInt(s, 10) || 0 of every tyre input, computed once
ParsedInt == [s \in TyreInputs |-> OrZero(ParseInt(s))]

\* parseFloat(s) || 0 of every other input, computed once
ParsedFloat == [s \in FloatInputs |-> OrZero(ParseFloat(s))]

(***************************************************************************)
(* Dates.  A reading of the clock is a day and the millisecond of the day.  *)
(***************************************************************************)
\* what new Date() may read: two instants of one day
ClockReadings == {[day |-> 0, ms |-> 0], [day |-> 0, ms |-> 1]}

\* new Date().toISOString(): date and time, one string per reading
ToISOString(now) == <<"iso", now.day, now.ms>>

\* new Date().toLocaleDateString('en-IN'): the date only
ToLocaleDateString(now) == <<"en-IN", now.day>>

(***************************************************************************)
(* The memoized calculations and the Transaction the save action builds.   *)
(***************************************************************************)
\* thousandths: 25 per tyre
LabourPerTyre == 25000
\* thousandths: 6.666 per km
FuelPerKm == 6666

\* the results object, from the totals
Results(totalPurchase, totalSale, totalLabour, totalFuel, genCost) ==
    [totalPurchase |-> totalPurchase,
     totalSale |-> totalSale,
     totalLabour |-> totalLabour,
     totalFuel |-> totalFuel,
     profitLoss |-> Sub(Sub(totalSale, totalPurchase),
                        Add(Add(totalLabour, totalFuel), genCost))]

\* the totals, from the parsed inputs
Totals(tyres, purchase, sale, km, genCost) ==
    Results(Mul(tyres, purchase), Mul(tyres, sale), Mul(tyres, Fin(LabourPerTyre)),
            Mul(km, Fin(FuelPerKm)), genCost)

\* the body of the useMemo callback
Calculations(nT, pP, sP, kR, gC) ==
    Totals(ParsedInt[nT], ParsedFloat[pP], ParsedFloat[sP], ParsedFloat[kR],
           ParsedFloat[gC])

\* useMemo: the calculations of every tuple of inputs, computed once
Memoized ==
    [nT \in TyreInputs, pP \in PurchaseInputs, sP \in SaleInputs,
     kR \in KmInputs, gC \in GeneratorInputs |-> Calculations(nT, pP, sP, kR, gC)]

\* calculations as the current render holds them
calculations == Memoized[numTyres, purchasePrice, salePrice, kmRun, generatorCost]

\* the object literal: the parsed inputs, then ...calculations
Transaction(now, results) ==
    [id |-> ToISOString(now),
     date |-> ToLocaleDateString(now),
     numTyres |-> ParsedInt[numTyres],
     purchasePrice |-> ParsedFloat[purchasePrice],
     salePrice |-> ParsedFloat[salePrice],
     kmRun |-> ParsedFloat[kmRun],
     generatorCost |-> ParsedFloat[generatorCost],
     totalPurchase |-> results.totalPurchase,
     totalSale |-> results.totalSale,
     totalLabour |-> results.totalLabour,
     totalFuel |-> results.totalFuel,
     profitLoss |-> results.profitLoss]

NewTransaction(now) == Transaction(now, calculations)

NumberFields == {"numTyres", "purchasePrice", "salePrice", "kmRun", "generatorCost",
                 "totalPurchase", "totalSale", "totalLabour", "totalFuel", "profitLoss"}

(***************************************************************************)
(* Values, JSON and localStorage.  A value is [t |-> "array", items |->    *)
(* a sequence], or a non-array value with no items.  The store holds no    *)
(* item, or a text: the empty string, a text that is not JSON, or the      *)
(* JSON text of a value.                                                   *)
(***************************************************************************)
Array(items) == [t |-> "array", items |-> items]

EmptyArray == Array(<<>>)

NullValue == [t |-> "null", items |-> <<>>]
ObjectValue == [t |-> "object", items |-> <<>>]
NumberValue == [t |-> "number", items |-> <<>>]
StringValue == [t |-> "string", items |-> <<>>]

IsTransaction(x) == DOMAIN x = NumberFields \cup {"id", "date"}

\* a number as JSON.stringify writes it: NaN and the infinities become null
JsonNumber(x) == IF x.k = "fin" THEN x ELSE Null

JsonItem(x) ==
    IF IsTransaction(x)
    THEN [f \in DOMAIN x |-> IF f \in NumberFields THEN JsonNumber(x[f]) ELSE x[f]]
    ELSE x

\* JSON.stringify(value)
JSONstringify(value) ==
    [t |-> "json",
     val |-> [t |-> value.t,
              items |-> [i \in 1..Len(value.items) |-> JsonItem(value.items[i])]]]

InvalidText == [t |-> "invalid", val |-> NullValue]
EmptyText == [t |-> "empty", val |-> NullValue]

\* JSON.parse(text) throws a SyntaxError
ParseThrows(text) == text.t # "json"

\* JSON.parse(text)
JSONparse(text) == text.val

NoItem == [present |-> FALSE, text |-> EmptyText]

Item(text) == [present |-> TRUE, text |-> text]

\* if (savedTransactions): null and the empty string are falsy
Truthy(item) == item.present /\ item.text.t # "empty"

NoUpdate == [has |-> FALSE, val |-> EmptyArray]

\* the state update the load effect queues on reading item
LoadedUpdate(item) ==
    IF Truthy(item) /\ ~ParseThrows(item.text)
    THEN [has |-> TRUE, val |-> JSONparse(item.text)]
    ELSE NoUpdate

\* rendering the history throws a TypeError: transactions.length of null,
\* transactions.map of a string, t.id of a null entry
RenderThrows(value) ==
    \/ value.t = "null"
    \/ value.t = "string"
    \/ value.t = "array" /\ \E i \in 1..Len(value.items) : value.items[i] = NullValue

\* [newTransaction, ...prev] throws a TypeError: prev is not iterable
SpreadThrows(prev) == prev.t \in {"null", "object", "number"}

\* [newTransaction, ...prev]
Prepend(t, prev) == Array(<<t>> \o prev.items)

(***************************************************************************)
(* The component.  pc is the position of the render cycle:                 *)
(*   "mounted"   first render committed, both effects pending              *)
(*   "loaded"    the load effect ran, the save effect is pending           *)
(*   "rerender"  the update queued by the load effect awaits its render    *)
(*   "rendered"  that render committed, the save effect is pending         *)
(*   "saved"     a save action's render committed, the save effect pending *)
(*   "idle"      no effect pending, handlers may run                       *)
(*   "crashed"   a render threw, React unmounted the tree                  *)
(* queued is the update setTransactions queued in the load effect,         *)
(* saveFailed tells whether the last setItem threw, alerted whether the    *)
(* last handler ended in the alert.                                        *)
(***************************************************************************)
\* useState initial values and the first render
Mount ==
    /\ numTyres = EmptyString
    /\ purchasePrice = EmptyString
    /\ salePrice = EmptyString
    /\ kmRun = EmptyString
    /\ generatorCost = EmptyString
    /\ transactions = EmptyArray
    /\ queued = NoUpdate
    /\ pc = "mounted"
    /\ saveFailed = FALSE
    /\ alerted = FALSE

\* first start: nothing stored under 'pnl-transactions'
Init ==
    /\ Mount
    /\ store = NoItem

\* values another writer may have left under the key
ForeignItems ==
    {NoItem, Item(EmptyText), Item(InvalidText)}
        \cup {Item([t |-> "json", val |-> v]) :
                v \in {NullValue, ObjectValue, NumberValue, StringValue,
                       EmptyArray, Array(<<NullValue>>), Array(<<ObjectValue>>)}}

InitForeign ==
    /\ Mount
    /\ store \in ForeignItems

\* the model runs the handlers while the history is shorter than MaxHistory
BelowBound == Len(transactions.items) < MaxHistory

\* onChange handlers of the five inputs
setNumTyres(v) ==
    /\ pc = "idle"
    /\ BelowBound
    /\ v # numTyres
    /\ numTyres' = v
    /\ alerted' = FALSE
    /\ UNCHANGED <<purchasePrice, salePrice, kmRun, generatorCost,
                   transactions, store, queued, pc, saveFailed>>

setPurchasePrice(v) ==
    /\ pc = "idle"
    /\ BelowBound
    /\ v # purchasePrice
    /\ purchasePrice' = v
    /\ alerted' = FALSE
    /\ UNCHANGED <<numTyres, salePrice, kmRun, generatorCost,
                   transactions, store, queued, pc, saveFailed>>

setSalePrice(v) ==
    /\ pc = "idle"
    /\ BelowBound
    /\ v # salePrice
    /\ salePrice' = v
    /\ alerted' = FALSE
    /\ UNCHANGED <<numTyres, purchasePrice, kmRun, generatorCost,
                   transactions, store, queued, pc, saveFailed>>

setKmRun(v) ==
    /\ pc = "idle"
    /\ BelowBound
    /\ v # kmRun
    /\ kmRun' = v
    /\ alerted' = FALSE
    /\ UNCHANGED <<numTyres, purchasePrice, salePrice, generatorCost,
                   transactions, store, queued, pc, saveFailed>>

setGeneratorCost(v) ==
    /\ pc = "idle"
    /\ BelowBound
    /\ v # generatorCost
    /\ generatorCost' = v
    /\ alerted' = FALSE
    /\ UNCHANGED <<numTyres, purchasePrice, salePrice, kmRun,
                   transactions, store, queued, pc, saveFailed>>

\* the load effect: runs once, after the first render
LoadEffect ==
    /\ pc = "mounted"
    /\ queued' = LoadedUpdate(store)
    /\ pc' = "loaded"
    /\ UNCHANGED <<inputs, transactions, store, saveFailed, alerted>>

FailedWriteClears(item) == NoItem

\* the item left under the key by a setItem that threw
FailedWrite(item) == item

\* the save effect: runs after the first render and after every render in
\* which transactions changed
SaveEffect ==
    /\ pc \in {"loaded", "rendered", "saved"}
    /\ \E setItemThrows \in BOOLEAN :
          /\ store' = IF setItemThrows THEN FailedWrite(store)
                      ELSE Item(JSONstringify(transactions))
          /\ saveFailed' = setItemThrows
    /\ pc' = IF queued.has THEN "rerender" ELSE "idle"
    /\ UNCHANGED <<inputs, transactions, queued, alerted>>

\* the render of the update the load effect queued
Rerender ==
    /\ pc = "rerender"
    /\ transactions' = queued.val
    /\ queued' = NoUpdate
    /\ pc' = IF RenderThrows(queued.val) THEN "crashed" ELSE "rendered"
    /\ UNCHANGED <<inputs, store, saveFailed, alerted>>

SavePreconditionNonNegative(n) == ~GreaterThanZero(Neg(n))

\* newTransaction.numTyres > 0
SavePrecondition(n) == GreaterThanZero(n)

PrependAtEnd(t, prev) == Array(prev.items \o <<t>>)

\* the updater prev => [newTransaction, ...prev]
Updater(t, prev) == Prepend(t, prev)

EffectNotScheduled == "idle"

\* position after the render of a save action: transactions changed, so the
\* save effect is pending
AfterSaveRender == "saved"

\* handleSaveTransaction after newTransaction is built
SaveOrAlert(newTransaction) ==
    IF SavePrecondition(newTransaction.numTyres)
    THEN /\ IF SpreadThrows(transactions)
            THEN /\ pc' = "crashed"
                 /\ UNCHANGED <<inputs, transactions>>
            ELSE /\ transactions' = Updater(newTransaction, transactions)
                 /\ numTyres' = EmptyString
                 /\ purchasePrice' = EmptyString
                 /\ salePrice' = EmptyString
                 /\ kmRun' = EmptyString
                 /\ generatorCost' = EmptyString
                 /\ pc' = AfterSaveRender
         /\ alerted' = FALSE
    ELSE /\ alerted' = TRUE
         /\ UNCHANGED <<inputs, transactions, pc>>

handleSaveTransaction(now) ==
    /\ pc = "idle"
    /\ BelowBound
    /\ SaveOrAlert(NewTransaction(now))
    /\ UNCHANGED <<store, queued, saveFailed>>

\* the page is loaded again: root.render(<App />) with fresh state
Reload ==
    /\ pc # "mounted"
    /\ numTyres' = EmptyString
    /\ purchasePrice' = EmptyString
    /\ salePrice' = EmptyString
    /\ kmRun' = EmptyString
    /\ generatorCost' = EmptyString
    /\ transactions' = EmptyArray
    /\ queued' = NoUpdate
    /\ pc' = "mounted"
    /\ saveFailed' = FALSE
    /\ alerted' = FALSE
    /\ UNCHANGED store

Next ==
    \/ \E v \in TyreInputs : setNumTyres(v)
    \/ \E v \in PurchaseInputs : setPurchasePrice(v)
    \/ \E v \in SaleInputs : setSalePrice(v)
    \/ \E v \in KmInputs : setKmRun(v)
    \/ \E v \in GeneratorInputs : setGeneratorCost(v)
    \/ LoadEffect
    \/ SaveEffect
    \/ Rerender
    \/ \E now \in ClockReadings : handleSaveTransaction(now)
    \/ Reload

Spec == Init /\ [][Next]_vars

SpecForeign == InitForeign /\ [][Next]_vars

(***************************************************************************)
(* Claims.                                                                 *)
(***************************************************************************)
AllEmpty(nT, pP, sP, kR, gC) ==
    /\ nT = EmptyString
    /\ pP = EmptyString
    /\ sP = EmptyString
    /\ kR = EmptyString
    /\ gC = EmptyString

\* C1: whenever the tyre count parses to an integer > 0, the save action
\* turns the history H into [t] ++ H, t being the one Transaction built from
\* the current inputs and the clock, and empties all five input fields.
C1_SavePrependsAndResets ==
    [][\A now \in ClockReadings :
          (GreaterThanZero(ParsedInt[numTyres]) /\ handleSaveTransaction(now))
             => /\ transactions'.t = "array"
                /\ transactions'.items = <<NewTransaction(now)>> \o transactions.items
                /\ AllEmpty(numTyres', purchasePrice', salePrice', kmRun', generatorCost')]_vars

\* a save action has just put a second entry in front of an older one
C1_Witness ==
    /\ pc = "saved"
    /\ Len(transactions.items) = 2
    /\ transactions.items[1] # transactions.items[2]
    /\ AllEmpty(numTyres, purchasePrice, salePrice, kmRun, generatorCost)

\* C2: whenever the tyre count parses to 0 (empty, not a number, or zero), the
\* save action surfaces the warning and leaves the history, the store and the
\* five input fields as they were.
C2_ZeroTyresOnlyWarns ==
    [][\A now \in ClockReadings :
          (ParsedInt[numTyres] = Zero /\ handleSaveTransaction(now))
             => /\ alerted'
                /\ transactions' = transactions
                /\ store' = store
                /\ inputs' = inputs]_vars

\* the warning is up after a save with an unparseable tyre count, other fields
\* filled in and a history that is not empty
C2_Witness ==
    /\ alerted
    /\ numTyres = <<"a", "b", "c">>
    /\ salePrice # EmptyString
    /\ Len(transactions.items) = 1

\* the formulas of the data model, on one Transaction
DerivedConsistent(t) ==
    /\ t.totalPurchase = Mul(t.numTyres, t.purchasePrice)
    /\ t.totalSale = Mul(t.numTyres, t.salePrice)
    /\ t.totalLabour = Mul(t.numTyres, Fin(LabourPerTyre))
    /\ t.totalFuel = Mul(t.kmRun, Fin(FuelPerKm))
    /\ t.profitLoss = Sub(Sub(t.totalSale, t.totalPurchase),
                          Add(Add(t.totalLabour, t.totalFuel), t.generatorCost))

\* C3: in every reachable state every Transaction of the history satisfies the
\* five formulas of the data model on its own input fields.
C3_DerivedFieldsConsistent ==
    \A i \in 1..Len(transactions.items) : DerivedConsistent(transactions.items[i])

\* the Transactions in the store
StoredTransactions ==
    IF store.present /\ store.text.t = "json" /\ store.text.val.t = "array"
    THEN {store.text.val.items[i] : i \in 1..Len(store.text.val.items)}
    ELSE {}

\* C4: a Transaction in the store is in the store, unchanged, in every later
\* state: no step removes or alters a stored Transaction, not even transiently.
C4_StoredNeverRemoved ==
    [][StoredTransactions \subseteq StoredTransactions']_vars

\* a stored value that is absent, unparseable or no sequence of Transactions
Incompatible(item) ==
    \/ ~item.present
    \/ item.text.t # "json"
    \/ item.text.val.t # "array"
    \/ \E i \in 1..Len(item.text.val.items) : ~IsTransaction(item.text.val.items[i])

\* C5: when the value found at startup is absent, unparseable or no sequence of
\* Transactions, the load queues no update (the history stays empty), and no
\* render or save action throws.
C5_IncompatibleDropped ==
    /\ (pc = "loaded" /\ Incompatible(store)) => ~queued.has
    /\ pc # "crashed"

\* C6: a sequence the save effect wrote is loaded back equal, in order and in
\* every field value: once the effect has written the history, what the load
\* effect makes of the store is that history.
C6_RoundTrip ==
    (pc = "idle" /\ ~saveFailed)
        => LoadedUpdate(store) = [has |-> TRUE, val |-> transactions]

\* C7: no two entries of the history have the same id.
C7_UniqueIds ==
    \A i, j \in 1..Len(transactions.items) :
        i # j => transactions.items[i].id # transactions.items[j].id

IsNegative(x) == x.k \in {"fin", "inf"} /\ x.v < 0

\* C8: every Transaction of the history has non-negative numTyres,
\* purchasePrice, salePrice, kmRun and generatorCost.
C8_InputsNonNegative ==
    \A i \in 1..Len(transactions.items) :
        \A f \in {"numTyres", "purchasePrice", "salePrice", "kmRun", "generatorCost"} :
            ~IsNegative(transactions.items[i][f])

\* C9: after mount and after every save action, once the pending save effect
\* has run and its write succeeded, the store holds the serialization of the
\* full in-memory history.
C9_StoreFollowsHistory ==
    (pc = "idle" /\ ~saveFailed) => store = Item(JSONstringify(transactions))

\* the effect of a second save has written both entries
C9_Witness ==
    /\ pc = "idle"
    /\ ~saveFailed
    /\ Len(transactions.items) = 2
    /\ store = Item(JSONstringify(transactions))

\* C10: a save effect whose write throws changes neither the history, the
\* input fields nor the store, and the next save effect whose write succeeds
\* stores the whole current history.
C10_FailedWriteLosesOneAttempt ==
    [][SaveEffect
         => /\ saveFailed' => /\ transactions' = transactions
                              /\ inputs' = inputs
                              /\ store' = store
            /\ (saveFailed /\ ~saveFailed')
                  => store' = Item(JSONstringify(transactions'))]_vars

\* the write of a saved entry failed: memory holds it, the store does not
C10_Witness ==
    /\ pc = "idle"
    /\ saveFailed
    /\ Len(transactions.items) = 1
    /\ store = Item(JSONstringify(EmptyArray))

====
